---- MODULE Spec2Model ----
(***************************************************************************)
(* Model of the retrieval / ranking / session core of the sermon bot:      *)
(*   utils.py         RecommendationEngine.rank_sermons, CacheManager      *)
(*   telegram_bot.py  PastorTaraBot's handlers, setup_bot                  *)
(*   db_handler.py    SermonDatabase's sermons table                       *)
(*   rag_ingest.py    ChannelScraper, MaterialsLoader                      *)
(*                                                                         *)
(* Similarity scores are held in hundredths (0.7 is 70).  The clock is in  *)
(* hours.  Python indexes are 0-based, sequences here are 1-based: the     *)
(* candidate at Python index i is sermons[i + 1].                          *)
(***************************************************************************)
EXTENDS Integers, Sequences, FiniteSets, Bags, TLC

VARIABLES
    cache,          \* CacheManager's directory: cache key -> {value, expires_at}
    now,            \* datetime.now(), in hours
    user_sessions,  \* PastorTaraBot.user_sessions: user_id -> {sermons, index}
    pending,        \* recommendation handlers suspended at the await of line 188
    last,           \* what the most recent operation was given, did and returned
    completed,      \* the recommendation handlers that ran to their end
    db,             \* SermonDatabase's file: the sermons table, sqlite_sequence
    vectorstore,    \* RAGEngine.vectorstore: the bag of embedded documents
    scrape,         \* ChannelScraper.scrape_all_channels: its locals while it runs
    shown,          \* user_id -> the sermons sent to the user since the session began
    boot            \* main(): where its retry loop stands, retry_count, the log

vars == <<cache, now, user_sessions, pending, last,
          completed, db, vectorstore, scrape, shown, boot>>

ingestVars == <<db, vectorstore, scrape>>
botVars == <<cache, now, user_sessions, pending, completed, shown, boot>>
restVars == <<completed, shown, ingestVars, boot>>

----------------------------------------------------------------------------
(* Program constants *)

MIN_RELEVANCE_SCORE == 70
CACHE_DURATION_HOURS == 6
DEFAULT_RECOMMENDATIONS == 5
FALLBACK_RANGE == 10
PAGE_SIZE == 5
MAX_AT_ONCE == 20
CHANNELS_TO_SCRAPE == 4
PROMPT_LIMIT == 15
MAX_RETRIES == 5
BACKOFF_SECONDS == 5

(* Bounds of the model *)

MaxTime == 12
MaxRowId == 3

Min(a, b) == IF a < b THEN a ELSE b

----------------------------------------------------------------------------
(* The corpus: search hits as RAGEngine.search builds them.  id stands for *)
(* the title / description of the chunk, so two chunks of one document     *)
(* share message_link and differ in id.                                    *)

Hit(id, link, score) ==
    [id |-> id, message_link |-> link, similarity_score |-> score]

Short3 == << Hit(1, "a", 90), Hit(2, "b", 50), Hit(3, "c", 80) >>
Dup3 == << Hit(1, "a", 90), Hit(4, "a", 70), Hit(3, "c", 60) >>
LongLinks == << "l1", "l2", "l3", "l4", "l5", "l6", "l7", "l8", "l9", "l10", "l11", "l12" >>
Twelve == [i \in 1..12 |-> Hit(10 + i, LongLinks[i], IF i % 3 = 0 THEN 65 ELSE 75)]
Nine == SubSeq(Twelve, 1, 9)
MoreLinks == << "m1", "m2", "m3", "m4", "m5", "m6", "m7", "m8", "m9", "m10", "m11", "m12", "m13", "m14", "m15", "m16" >>
Sixteen == [i \in 1..16 |-> Hit(30 + i, MoreLinks[i], IF i % 2 = 0 THEN 60 ELSE 80)]

Links(seq) == {seq[i].message_link : i \in 1..Len(seq)}

NoDuplicateLinks(seq) ==
    \A i, j \in 1..Len(seq) : seq[i].message_link = seq[j].message_link => i = j

----------------------------------------------------------------------------
(* The language model's answer to the ranking prompt.                      *)
(*   raise      llm.invoke raised                                          *)
(*   text       content is not bracketed, e.g. "not json"                  *)
(*   malformed  content is bracketed but json.loads raises, or an element  *)
(*              is not an integer (the comparison or the subscript raises) *)
(*   array      content is a JSON array of integers, held in indexes       *)

Raise == [kind |-> "raise", indexes |-> <<>>]
NotJson == [kind |-> "text", indexes |-> <<>>]
Malformed == [kind |-> "malformed", indexes |-> <<>>]
Array(ix) == [kind |-> "array", indexes |-> ix]

----------------------------------------------------------------------------
(* CacheManager *)

md5(query) == query

(* CacheKey over the query in lower case and without surrounding blanks *)
CacheKeyNormalized(user_id, query) ==
    <<user_id, md5(IF query \in {"Faith", " faith "} THEN "faith" ELSE query)>>

(* line 121 *)
CacheKey(user_id, query) == <<user_id, md5(query)>>

(* CacheGet with the expiry test left out *)
CacheGetNoExpiry(c, t, key) ==
    IF key \notin DOMAIN c
    THEN [hit |-> FALSE, value |-> <<>>, cache |-> c]
    ELSE [hit |-> TRUE, value |-> c[key].value, cache |-> c]

(* lines 249-270 *)
CacheGet(c, t, key) ==
    IF key \notin DOMAIN c
    THEN [hit |-> FALSE, value |-> <<>>, cache |-> c]
    ELSE IF t > c[key].expires_at
         THEN [hit |-> FALSE, value |-> <<>>,
               cache |-> [k \in DOMAIN c \ {key} |-> c[k]]]
         ELSE [hit |-> TRUE, value |-> c[key].value, cache |-> c]

(* CacheSet that leaves the expiry of an entry it overwrites *)
CacheSetKeepExpiry(c, t, key, value) ==
    [k \in DOMAIN c \cup {key} |->
        IF k = key
        THEN [value |-> value,
              expires_at |-> IF key \in DOMAIN c THEN c[key].expires_at
                             ELSE t + CACHE_DURATION_HOURS]
        ELSE c[k]]

(* lines 272-285 *)
CacheSet(c, t, key, value) ==
    [k \in DOMAIN c \cup {key} |->
        IF k = key
        THEN [value |-> value, expires_at |-> t + CACHE_DURATION_HOURS]
        ELSE c[k]]

(* Python truth value of what cache.get returned: None and [] are false *)
Truthy(got) == got.hit /\ Len(got.value) > 0

----------------------------------------------------------------------------
(* RecommendationEngine.rank_sermons *)

(* FallbackFilter with > in place of >= *)
FallbackFilterStrict(sermons) ==
    SelectSeq(sermons, LAMBDA s : s.similarity_score > MIN_RELEVANCE_SCORE)

FallbackFilter(sermons) ==
    SelectSeq(sermons, LAMBDA s : s.similarity_score >= MIN_RELEVANCE_SCORE)

(* lines 128-140: the summaries the prompt shows to the model *)
PromptSummaries(sermons) == SubSeq(sermons, 1, Min(PROMPT_LIMIT, Len(sermons)))

RankedIndexes(sermons, response) ==
    IF response.kind = "array"
    THEN response.indexes
    ELSE [i \in 1..Min(FALLBACK_RANGE, Len(sermons)) |-> i - 1]

(* ReorderFrom without the test on seen_links *)
RECURSIVE ReorderFromRepeating(_, _, _, _, _)
ReorderFromRepeating(sermons, ranked_indexes, n, ranked_sermons, seen_links) ==
    IF n > Len(ranked_indexes)
    THEN ranked_sermons
    ELSE LET idx == ranked_indexes[n] IN
         IF 0 <= idx /\ idx < Len(sermons)
         THEN ReorderFromRepeating(sermons, ranked_indexes, n + 1,
                                   Append(ranked_sermons, sermons[idx + 1]),
                                   seen_links)
         ELSE ReorderFromRepeating(sermons, ranked_indexes, n + 1,
                                   ranked_sermons, seen_links)

(* lines 165-174: the loop over ranked_indexes, from its n-th element on *)
RECURSIVE ReorderFrom(_, _, _, _, _)
ReorderFrom(sermons, ranked_indexes, n, ranked_sermons, seen_links) ==
    IF n > Len(ranked_indexes)
    THEN ranked_sermons
    ELSE LET idx == ranked_indexes[n] IN
         IF 0 <= idx /\ idx < Len(sermons)
                     /\ sermons[idx + 1].message_link \notin seen_links
         THEN ReorderFrom(sermons, ranked_indexes, n + 1,
                          Append(ranked_sermons, sermons[idx + 1]),
                          seen_links \cup {sermons[idx + 1].message_link})
         ELSE ReorderFrom(sermons, ranked_indexes, n + 1,
                          ranked_sermons, seen_links)

Reorder(sermons, ranked_indexes) ==
    ReorderFrom(sermons, ranked_indexes, 1, <<>>, {})

RaisesInTry(response) == response.kind \in {"raise", "malformed"}

(* OnException that also stores the fallback list *)
OnExceptionCaching(c, t, cache_key, sermons) ==
    [result |-> FallbackFilter(sermons),
     cache |-> CacheSet(c, t, cache_key, FallbackFilter(sermons)),
     events |-> <<"cache.get", "llm.invoke">>]

(* lines 179-182: the except branch *)
OnException(c, t, cache_key, sermons) ==
    [result |-> FallbackFilter(sermons), cache |-> c,
     events |-> <<"cache.get", "llm.invoke">>]

(* OnResponse that takes an index outside the candidates for a failure    *)
(* and answers it as the except branch does                               *)
OnResponseRejecting(c, t, cache_key, sermons, response) ==
    IF \E n \in 1..Len(response.indexes) :
          response.indexes[n] < 0 \/ response.indexes[n] >= Len(sermons)
    THEN OnException(c, t, cache_key, sermons)
    ELSE LET ranked_sermons == Reorder(sermons, RankedIndexes(sermons, response))
         IN  [result |-> ranked_sermons,
              cache |-> CacheSet(c, t, cache_key, ranked_sermons),
              events |-> <<"cache.get", "llm.invoke", "cache.set">>]

(* lines 159-177: reorder, cache, return *)
OnResponse(c, t, cache_key, sermons, response) ==
    LET ranked_sermons == Reorder(sermons, RankedIndexes(sermons, response))
    IN  [result |-> ranked_sermons,
         cache |-> CacheSet(c, t, cache_key, ranked_sermons),
         events |-> <<"cache.get", "llm.invoke", "cache.set">>]

(* lines 120-182: what rank_sermons does once it has candidates *)
RankCandidateList(c, t, query, sermons, user_id, response) ==
    LET cache_key == CacheKey(user_id, query)
        cached == CacheGet(c, t, cache_key)
    IN  IF Truthy(cached)
        THEN [result |-> cached.value, cache |-> cached.cache,
              events |-> <<"cache.get">>]
        ELSE IF RaisesInTry(response)
             THEN OnException(cached.cache, t, cache_key, sermons)
             ELSE OnResponse(cached.cache, t, cache_key, sermons, response)

(* RankSermons without the test for an empty candidate list *)
RankSermonsCacheFirst(c, t, query, sermons, user_id, response) ==
    RankCandidateList(c, t, query, sermons, user_id, response)

RankSermons(c, t, query, sermons, user_id, response) ==
    IF sermons = <<>>
    THEN [result |-> <<>>, cache |-> c, events |-> <<>>]
    ELSE RankCandidateList(c, t, query, sermons, user_id, response)

----------------------------------------------------------------------------
(* State *)

(* main() at line 60, before its first attempt *)
AtLoop ==
    [state |-> "loop", retry_count |-> 0, attempts |-> 0, errors |-> <<>>,
     waits |-> <<>>, exit_code |-> 0]

(* scrape_all_channels is not running *)
NotScraping ==
    [running |-> FALSE, channels_left |-> 0, in_channel |-> FALSE,
     sermons |-> <<>>, all_sermons |-> <<>>]

Idle == [op |-> "init", user_id |-> 0, query |-> "", num |-> 0,
         sermons |-> <<>>, response |-> Raise, result |-> <<>>,
         events |-> <<>>, transport |-> "ok", replies |-> <<>>,
         sent |-> <<>>, key |-> <<>>, hit |-> FALSE, command |-> "",
         failures |-> {}, items |-> <<>>, prompt |-> <<>>]

Init ==
    /\ cache = [k \in {} |-> 0]
    /\ now = 0
    /\ user_sessions = [u \in {} |-> 0]
    /\ pending = {}
    /\ last = Idle
    /\ completed = {}
    /\ db = [sermons |-> {}, sqlite_sequence |-> 0]
    /\ vectorstore = EmptyBag
    /\ scrape = NotScraping
    /\ shown = [u \in {} |-> 0]
    /\ boot = AtLoop

(* Time passes *)
Tick(hours) ==
    /\ now + hours <= MaxTime
    /\ now' = now + hours
    /\ last' = [Idle EXCEPT !.op = "tick"]
    /\ UNCHANGED <<cache, user_sessions, pending>>

(* A direct call recommendation_engine.rank_sermons(query, sermons, user_id) *)
RankCall(user_id, query, sermons, response) ==
    LET r == RankSermons(cache, now, query, sermons, user_id, response) IN
    /\ cache' = r.cache
    /\ last' = [Idle EXCEPT !.op = "rank", !.user_id = user_id,
                            !.query = query, !.sermons = sermons,
                            !.response = response, !.result = r.result,
                            !.events = r.events,
                            !.prompt = IF "llm.invoke" \in
                                          {r.events[i] : i \in 1..Len(r.events)}
                                       THEN PromptSummaries(sermons)
                                       ELSE <<>>]
    /\ UNCHANGED <<now, user_sessions, pending>>

(* CacheGetCall that reads and never deletes *)
CacheGetCallReadOnly(key) ==
    LET got == CacheGet(cache, now, key) IN
    /\ last' = [Idle EXCEPT !.op = "get", !.key = key, !.hit = got.hit,
                            !.result = got.value]
    /\ UNCHANGED <<cache, now, user_sessions, pending>>

(* A direct call cache.get(key): result is what it returned, hit whether   *)
(* that was a value rather than None, events the os.remove of line 263     *)
CacheGetCall(key) ==
    LET got == CacheGet(cache, now, key) IN
    /\ cache' = got.cache
    /\ last' = [Idle EXCEPT !.op = "get", !.key = key, !.hit = got.hit,
                            !.result = got.value,
                            !.events = IF DOMAIN got.cache = DOMAIN cache
                                       THEN <<>> ELSE <<"os.remove">>]
    /\ UNCHANGED <<now, user_sessions, pending>>

(* A direct call cache.set(key, value) *)
CacheSetCall(key, value) ==
    /\ cache' = CacheSet(cache, now, key, value)
    /\ last' = [Idle EXCEPT !.op = "set", !.key = key, !.result = value]
    /\ UNCHANGED <<now, user_sessions, pending>>

----------------------------------------------------------------------------
(* SermonDatabase.  A sermon is its message_link and data, which stands    *)
(* for title, description, channel, image_url, date and theme together.    *)
(* id is INTEGER PRIMARY KEY AUTOINCREMENT: one more than the largest id   *)
(* the table ever held, which sqlite_sequence keeps.                       *)

Sermon(message_link, data) == [message_link |-> message_link, data |-> data]

RowsWithLink(table, message_link) ==
    {row \in table : row.message_link = message_link}

(* add_sermon as INSERT OR IGNORE: a row with the link stays as it is *)
AddSermonIgnoring(d, sermon_data) ==
    IF RowsWithLink(d.sermons, sermon_data.message_link) # {}
    THEN d
    ELSE [sermons |-> d.sermons \cup
                        {[id |-> d.sqlite_sequence + 1,
                          message_link |-> sermon_data.message_link,
                          data |-> sermon_data.data]},
          sqlite_sequence |-> d.sqlite_sequence + 1]

(* add_sermon, lines 87-119: INSERT OR REPLACE on the UNIQUE message_link  *)
(* deletes the row in conflict and inserts the new one                     *)
AddSermon(d, sermon_data) ==
    [sermons |-> (d.sermons
                    \ RowsWithLink(d.sermons, sermon_data.message_link))
                 \cup {[id |-> d.sqlite_sequence + 1,
                        message_link |-> sermon_data.message_link,
                        data |-> sermon_data.data]},
     sqlite_sequence |-> d.sqlite_sequence + 1]

(* get_sermon_by_link, lines 121-133: the row, here the set that holds it, *)
(* empty for None                                                          *)
GetSermonByLink(d, message_link) == RowsWithLink(d.sermons, message_link)

(* get_sermon_count, lines 179-188 *)
GetSermonCount(d) == Cardinality(d.sermons)

(* delete_all_sermons, lines 190-199 *)
DeleteAllSermons(d) == [d EXCEPT !.sermons = {}]

(* A direct call db.add_sermon(sermon_data) *)
AddSermonCall(sermon_data) ==
    /\ db.sqlite_sequence < MaxRowId
    /\ db' = AddSermon(db, sermon_data)
    /\ last' = [Idle EXCEPT !.op = "add_sermon", !.items = <<sermon_data>>]
    /\ UNCHANGED <<botVars, vectorstore, scrape>>

(* A direct call db.delete_all_sermons() *)
DeleteAllCall ==
    /\ db' = DeleteAllSermons(db)
    /\ last' = [Idle EXCEPT !.op = "delete_all"]
    /\ UNCHANGED <<botVars, vectorstore, scrape>>

----------------------------------------------------------------------------
(* Ingestion.  A document of the vector store is the sermon it was made    *)
(* from and the number of its chunk; the scraper embeds a sermon whole, as *)
(* chunk 1.  indexing says whether vectorstore.add_documents raises.       *)

Document(sermon_data, chunk) ==
    [message_link |-> sermon_data.message_link, data |-> sermon_data.data,
     chunk |-> chunk]

(* RAGEngine.add_documents, utils.py lines 49-58 *)
AddDocuments(store, documents, indexing) ==
    IF documents = <<>> \/ indexing = "raise"
    THEN store
    ELSE store (+) [doc \in {documents[i] : i \in 1..Len(documents)} |->
                      Cardinality({i \in 1..Len(documents) :
                                      documents[i] = doc})]

(* _sermons_to_documents, rag_ingest.py lines 281-304 *)
SermonsToDocuments(sermons) ==
    [i \in 1..Len(sermons) |-> Document(sermons[i], 1)]

(* scrape_all_channels, lines 260-262 *)
ScrapeStart ==
    /\ ~scrape.running
    /\ scrape' = [NotScraping EXCEPT !.running = TRUE,
                                     !.channels_left = CHANNELS_TO_SCRAPE]
    /\ last' = [Idle EXCEPT !.op = "scrape_start"]
    /\ UNCHANGED <<botVars, db, vectorstore>>

(* scrape_channel, lines 54-59: the next channel is taken up *)
ChannelBegin ==
    /\ scrape.running /\ ~scrape.in_channel /\ scrape.channels_left > 0
    /\ scrape' = [scrape EXCEPT !.in_channel = TRUE, !.sermons = <<>>,
                                !.channels_left = @ - 1]
    /\ last' = [Idle EXCEPT !.op = "channel_begin"]
    /\ UNCHANGED <<botVars, db, vectorstore>>

(* _extract_sermon_data, lines 126-132: a sermon whose link has a row *)
SkipExisting(message) ==
    /\ last' = [Idle EXCEPT !.op = "scrape_message", !.items = <<message>>]
    /\ UNCHANGED <<botVars, db, vectorstore, scrape>>

(* scrape_channel, lines 62-77: one teaching message of the channel *)
ScrapeMessage(message) ==
    /\ scrape.in_channel
    /\ IF GetSermonByLink(db, message.message_link) # {}
       THEN SkipExisting(message)
       ELSE /\ db.sqlite_sequence < MaxRowId
            /\ scrape' = [scrape EXCEPT !.sermons = Append(@, message)]
            /\ db' = AddSermon(db, message)
            /\ last' = [Idle EXCEPT !.op = "scrape_message",
                                    !.items = <<message>>]
            /\ UNCHANGED <<botVars, vectorstore>>

(* scrape_channel, line 80, and scrape_all_channels, line 266 *)
ChannelReturns ==
    /\ scrape.in_channel
    /\ scrape' = [scrape EXCEPT !.in_channel = FALSE, !.sermons = <<>>,
                                !.all_sermons = @ \o scrape.sermons]
    /\ last' = [Idle EXCEPT !.op = "channel_returns"]
    /\ UNCHANGED <<botVars, db, vectorstore>>

(* scrape_channel, lines 82-84: an exception in the channel returns []     *)
ChannelRaises ==
    /\ scrape.in_channel
    /\ scrape' = [scrape EXCEPT !.in_channel = FALSE, !.sermons = <<>>]
    /\ last' = [Idle EXCEPT !.op = "channel_raises"]
    /\ UNCHANGED <<botVars, db, vectorstore>>

(* scrape_all_channels, lines 271-279 *)
ScrapeFinish(indexing) ==
    /\ scrape.running /\ ~scrape.in_channel /\ scrape.channels_left = 0
    /\ vectorstore' = AddDocuments(vectorstore,
                                   SermonsToDocuments(scrape.all_sermons),
                                   indexing)
    /\ scrape' = NotScraping
    /\ last' = [Idle EXCEPT !.op = "scrape_finish",
                            !.items = scrape.all_sermons]
    /\ UNCHANGED <<botVars, db>>

(* A file of the materials folder: its sermon and the number of chunks the *)
(* text splitter makes of its content                                      *)
File(message_link, data, chunks) ==
    [message_link |-> message_link, data |-> data, chunks |-> chunks]

(* load_all_materials, lines 369-381: the documents of one file *)
CreateDocuments(file) ==
    [chunk \in 1..file.chunks |-> Document(file, chunk)]

(* load_all_materials, lines 333-388: the loop over the files, from the    *)
(* n-th on; gives the database and all_documents at its end                *)
RECURSIVE LoadFrom(_, _, _, _)
LoadFrom(files, n, d, all_documents) ==
    IF n > Len(files)
    THEN [db |-> d, all_documents |-> all_documents]
    ELSE LoadFrom(files, n + 1,
                  AddSermon(d, Sermon(files[n].message_link, files[n].data)),
                  all_documents \o CreateDocuments(files[n]))

(* load_all_materials, lines 316-393 *)
LoadAllMaterials(files, indexing) ==
    LET loaded == LoadFrom(files, 1, db, <<>>) IN
    /\ db.sqlite_sequence + Len(files) <= MaxRowId
    /\ db' = loaded.db
    /\ vectorstore' = AddDocuments(vectorstore, loaded.all_documents, indexing)
    /\ last' = [Idle EXCEPT !.op = "load_materials", !.items = files]
    /\ UNCHANGED <<botVars, scrape>>

----------------------------------------------------------------------------
(* PastorTaraBot.  Replies are named by tag:                               *)
(*   no_match 160   no_relevant 174   ai_response 188   want_more 202      *)
(*   error 208      search_first 263  no_more 276       here_are_more 283  *)
(*   still_more 291 thats_all 295     oops 304 (error_handler)             *)
(* transport says what the chat transport does to the handler's awaits:    *)
(*   ok           every await returns                                      *)
(*   typing_fails send_action (line 153) raises                            *)
(*   reply_fails  the first reply_text of the handler raises               *)

Take(n, seq) == SubSeq(seq, 1, Min(n, Len(seq)))

(* a store that is one slot shared by the users it knows *)
StoreForAll(sessions, user_id, session) ==
    [u \in DOMAIN sessions \cup {user_id} |-> session]

(* self.user_sessions[user_id] = ..., lines 181-184 *)
Store(sessions, user_id, session) ==
    [u \in DOMAIN sessions \cup {user_id} |->
        IF u = user_id THEN session ELSE sessions[u]]

(* StartSession that replaces the list and keeps the index of a prior     *)
(* session                                                                *)
StartSessionKeepIndex(sessions, user_id, ranked_sermons) ==
    IF user_id \in DOMAIN sessions
    THEN [sessions EXCEPT ![user_id].sermons = ranked_sermons]
    ELSE Store(sessions, user_id, [sermons |-> ranked_sermons, index |-> 0])

(* lines 180-184 *)
StartSession(sessions, user_id, ranked_sermons) ==
    Store(sessions, user_id, [sermons |-> ranked_sermons, index |-> 0])

(* line 198 *)
SetIndex(sessions, user_id, num) ==
    [sessions EXCEPT ![user_id].index = num]

(* RAGEngine.search, utils.py lines 60-89: index says what the query of    *)
(* the embedding index does; an exception anywhere gives the empty list    *)
RagSearch(index) == IF index.raises THEN <<>> ELSE index.hits

Found(hits) == [raises |-> FALSE, hits |-> hits]
IndexFails == [raises |-> TRUE, hits |-> <<>>]

(* ResponseGenerator.generate_response, utils.py lines 188-215: the text   *)
(* of the model, or the canned blessing of line 215 when llm.invoke raises *)
GenerateResponse(generated) ==
    IF generated = "raise" THEN "blessing" ELSE "ai_response"

(* the except branch that only logs *)
ExceptBranchSilent(call) ==
    /\ last' = call
    /\ UNCHANGED <<cache, now, user_sessions, pending>>

(* _process_recommendation, lines 206-210: the except branch, entered with *)
(* nothing done yet                                                        *)
ExceptBranch(call) ==
    /\ last' = [call EXCEPT !.replies = <<"error">>]
    /\ UNCHANGED <<cache, now, user_sessions, pending>>

(* a return without results that also drops the session the user had      *)
NoResultsForgetting(answered) ==
    /\ last' = answered
    /\ user_sessions' = [u \in DOMAIN user_sessions \ {answered.user_id} |->
                            user_sessions[u]]
    /\ UNCHANGED <<now, pending>>

(* _process_recommendation, lines 159-164 and 173-178: the reply that      *)
(* nothing was found, and the return                                       *)
NoResults(answered) ==
    /\ last' = answered
    /\ UNCHANGED <<now, user_sessions, pending>>

(* _process_recommendation, lines 151-188 and the except branch: from the  *)
(* typing indicator to the await of the reply that carries the response.   *)
(* failures names the stages that raised inside: search, rank, generate    *)
ProcessRecommendation(user_id, topic, num, index, response, generated, transport) ==
    LET search_results == RagSearch(index)
        r == RankSermons(cache, now, topic, search_results, user_id, response)
        asked == "llm.invoke" \in {r.events[i] : i \in 1..Len(r.events)}
        call == [Idle EXCEPT !.op = "recommend", !.user_id = user_id,
                             !.query = topic, !.num = num,
                             !.transport = transport]
        searched == [call EXCEPT !.events = <<"rag.search">>,
                                 !.failures = IF index.raises
                                              THEN {"search"} ELSE {}]
        ranked == [searched EXCEPT
                      !.events = <<"rag.search">> \o r.events,
                      !.failures = IF asked /\ RaisesInTry(response)
                                   THEN {"rank"} ELSE {}]
        reply(tag) == IF transport = "reply_fails" THEN <<"error">> ELSE <<tag>>
    IN  IF transport = "typing_fails"
        THEN ExceptBranch(call)
        ELSE IF search_results = <<>>
        THEN /\ NoResults([searched EXCEPT !.replies = reply("no_match")])
             /\ UNCHANGED cache
        ELSE IF r.result = <<>>
        THEN /\ cache' = r.cache
             /\ NoResults([ranked EXCEPT !.replies = reply("no_relevant")])
        ELSE /\ cache' = r.cache
             /\ user_sessions' = StartSession(user_sessions, user_id, r.result)
             /\ pending' = IF transport = "reply_fails"
                           THEN pending
                           ELSE pending \cup {[user_id |-> user_id, num |-> num,
                                               ranked_sermons |-> r.result]}
             /\ last' = [ranked EXCEPT
                            !.result = r.result,
                            !.events = @ \o <<"llm.invoke">>,
                            !.failures = @ \cup IF generated = "raise"
                                                THEN {"generate"} ELSE {},
                            !.replies = reply(GenerateResponse(generated))]
             /\ UNCHANGED now

(* _process_recommendation, lines 190-204: the sermons go out, the index   *)
(* is set, the hint is sent                                                *)
PresentRecommendation(p) ==
    /\ p \in pending
    /\ pending' = pending \ {p}
    /\ user_sessions' = SetIndex(user_sessions, p.user_id, p.num)
    /\ last' = [Idle EXCEPT !.op = "present", !.user_id = p.user_id,
                            !.num = p.num, !.result = p.ranked_sermons,
                            !.sent = Take(p.num, p.ranked_sermons),
                            !.replies = IF Len(p.ranked_sermons) > p.num
                                        THEN <<"want_more">> ELSE <<>>]
    /\ UNCHANGED <<cache, now>>

(* a slice that begins one item after the cursor's item *)
NextBatchSkipping(sermons, current_index) ==
    SubSeq(sermons, current_index + 2,
           Min(current_index + 1 + PAGE_SIZE, Len(sermons)))

(* line 273: sermons[current_index:current_index + 5] *)
NextBatch(sermons, current_index) ==
    SubSeq(sermons, current_index + 1,
           Min(current_index + PAGE_SIZE, Len(sermons)))

(* Advance by the number of items in the batch *)
AdvanceByBatch(current_index, next_batch) == current_index + Len(next_batch)

(* line 287 *)
Advance(current_index, next_batch) == current_index + PAGE_SIZE

MoreCall(user_id, transport) ==
    [Idle EXCEPT !.op = "more", !.user_id = user_id, !.transport = transport]

(* MoreWithoutSession that gives the user an empty session, as a          *)
(* defaulting lookup would                                                *)
MoreWithoutSessionCreating(user_id, transport) ==
    /\ last' = [MoreCall(user_id, transport) EXCEPT !.replies =
                   IF transport = "reply_fails"
                   THEN <<"oops">> ELSE <<"no_more">>]
    /\ user_sessions' = Store(user_sessions, user_id,
                              [sermons |-> <<>>, index |-> 0])
    /\ UNCHANGED <<cache, now, pending>>

(* _handle_more, lines 262-266: the user has no session.  A reply the      *)
(* transport refuses raises out of the handler into error_handler           *)
MoreWithoutSession(user_id, transport) ==
    /\ last' = [MoreCall(user_id, transport) EXCEPT !.replies =
                   IF transport = "reply_fails"
                   THEN <<"oops">> ELSE <<"search_first">>]
    /\ UNCHANGED <<cache, now, user_sessions, pending>>

(* MoreExhausted that moves the index on before it looks at the slice *)
MoreExhaustedAdvancing(user_id, transport) ==
    /\ last' = [MoreCall(user_id, transport) EXCEPT !.replies =
                   IF transport = "reply_fails"
                   THEN <<"oops">> ELSE <<"no_more">>]
    /\ user_sessions' = SetIndex(user_sessions, user_id,
                                 user_sessions[user_id].index + PAGE_SIZE)
    /\ UNCHANGED <<cache, now, pending>>

(* _handle_more, lines 275-280: the slice at the cursor is empty *)
MoreExhausted(user_id, transport) ==
    /\ last' = [MoreCall(user_id, transport) EXCEPT !.replies =
                   IF transport = "reply_fails"
                   THEN <<"oops">> ELSE <<"no_more">>]
    /\ UNCHANGED <<cache, now, user_sessions, pending>>

(* _handle_more, lines 260-297 *)
HandleMore(user_id, transport) ==
    IF user_id \notin DOMAIN user_sessions
    THEN MoreWithoutSession(user_id, transport)
    ELSE LET session == user_sessions[user_id]
             sermons == session.sermons
             current_index == session.index
             next_batch == NextBatch(sermons, current_index)
             index == Advance(current_index, next_batch)
         IN  IF next_batch = <<>>
             THEN MoreExhausted(user_id, transport)
             ELSE IF transport = "reply_fails"
             THEN /\ last' = [MoreCall(user_id, transport) EXCEPT
                                 !.replies = <<"oops">>]
                  /\ UNCHANGED <<cache, now, user_sessions, pending>>
             ELSE /\ user_sessions' = SetIndex(user_sessions, user_id, index)
                  /\ last' = [MoreCall(user_id, transport) EXCEPT
                                 !.sent = next_batch,
                                 !.replies = <<"here_are_more",
                                               IF index < Len(sermons)
                                               THEN "still_more"
                                               ELSE "thats_all">>]
                  /\ UNCHANGED <<cache, now, pending>>

----------------------------------------------------------------------------
(* The handlers setup_bot registers.  An update is a command with the text *)
(* after it, or (command "") a text message.  The strings of Python are    *)
(* opaque here, so split, join, lower, isdigit and int are tables over the *)
(* texts the updates use.  "sup2" stands for the superscript two, which    *)
(* isdigit() accepts and int() rejects with ValueError.                    *)

split(text) ==
    CASE text = "" -> <<>>
      [] text = "show more" -> <<"show", "more">>
      [] text = "faith 0" -> <<"faith", "0">>
      [] text = "faith 25" -> <<"faith", "25">>
      [] text = "3 on faith" -> <<"3", "on", "faith">>
      [] text = "on faith" -> <<"on", "faith">>
      [] OTHER -> <<text>>

Texts ==
    {"", "faith", "more", "More", "show more", "0", "3", "25", "sup2",
     "faith 0", "faith 25", "3 on faith", "on faith", "on", "show"}

(* ' '.join(words) *)
join(words) == CHOOSE text \in Texts : split(text) = words

lower(text) == IF text = "More" THEN "more" ELSE text

isdigit(word) == word \in {"0", "3", "25", "sup2"}

IntRaises(word) == word \notin {"0", "3", "25"}

int(word) == CASE word = "0" -> 0 [] word = "3" -> 3 [] word = "25" -> 25

Command(name, text) == [command |-> name, text |-> text]
Message(text) == [command |-> "", text |-> text]

(* ResponseGenerator.extract_intent, utils.py lines 217-240 *)
ExtractIntent(message) ==
    LET words == split(message)
        digits == {i \in 1..Len(words) : isdigit(words[i])}
        first == CHOOSE i \in digits : \A j \in digits : i <= j
    IN  IF digits # {} /\ IntRaises(words[first])
        THEN [topic |-> message, num_requested |-> DEFAULT_RECOMMENDATIONS]
        ELSE [topic |-> message,
              num_requested |-> IF digits = {}
                                THEN DEFAULT_RECOMMENDATIONS
                                ELSE Min(int(words[first]), MAX_AT_ONCE)]

(* start_command and help_command, lines 39-98: one reply *)
StaticCommand(user_id, name, transport) ==
    /\ last' = [Idle EXCEPT !.op = name, !.user_id = user_id,
                            !.command = name, !.transport = transport,
                            !.replies = IF transport = "reply_fails"
                                        THEN <<"oops">>
                                        ELSE IF name = "start"
                                        THEN <<"welcome">> ELSE <<"help">>]
    /\ UNCHANGED <<cache, now, user_sessions, pending>>

(* recommend_command, lines 100-123.  int() of line 117 raises out of the  *)
(* handler into error_handler                                              *)
RecommendCommand(user_id, args, index, response, generated, transport) ==
    LET call == [Idle EXCEPT !.op = "recommend", !.user_id = user_id,
                             !.command = "recommend",
                             !.transport = transport]
        final == args[Len(args)]
    IN  IF args = <<>>
        THEN /\ last' = [call EXCEPT !.replies =
                            IF transport = "reply_fails"
                            THEN <<"oops">> ELSE <<"provide_topic">>]
             /\ UNCHANGED <<cache, now, user_sessions, pending>>
        ELSE IF isdigit(final)
        THEN IF IntRaises(final)
             THEN /\ last' = [call EXCEPT !.op = "raised",
                                          !.replies = <<"oops">>]
                  /\ UNCHANGED <<cache, now, user_sessions, pending>>
             ELSE ProcessRecommendation(
                      user_id, join(SubSeq(args, 1, Len(args) - 1)),
                      Min(int(final), MAX_AT_ONCE),
                      index, response, generated, transport)
        ELSE ProcessRecommendation(user_id, join(args),
                                   DEFAULT_RECOMMENDATIONS,
                                   index, response, generated, transport)

(* handle_message, lines 125-141 *)
HandleMessage(user_id, message_text, index, response, generated, transport) ==
    IF lower(message_text) \in {"more", "more sermons", "show more"}
    THEN HandleMore(user_id, transport)
    ELSE LET intent == ExtractIntent(message_text) IN
         ProcessRecommendation(user_id, intent.topic, intent.num_requested,
                               index, response, generated, transport)

(* An update no registered handler takes: nothing runs *)
Unhandled(user_id, update) ==
    /\ last' = [Idle EXCEPT !.op = "unhandled", !.user_id = user_id,
                            !.command = update.command]
    /\ UNCHANGED <<cache, now, user_sessions, pending>>

(* setup_bot, lines 318-326: three CommandHandlers, and a MessageHandler   *)
(* for text that is not a command                                          *)
Dispatch(user_id, update, index, response, generated, transport) ==
    IF update.command \in {"start", "help"}
    THEN StaticCommand(user_id, update.command, transport)
    ELSE IF update.command = "recommend"
    THEN RecommendCommand(user_id, split(update.text), index, response,
                          generated, transport)
    ELSE IF update.command = ""
    THEN HandleMessage(user_id, update.text, index, response, generated,
                       transport)
    ELSE Unhandled(user_id, update)

----------------------------------------------------------------------------
(* main(), main.py lines 56-101.  boot.state is "loop" at the while of     *)
(* line 60, "polling" inside the try (setup_bot was called, run_polling    *)
(* runs), "returned" after a break and "exited" after sys.exit.  errors is *)
(* what the attempts raised, waits what time.sleep was called with         *)

(* a policy that takes every exception for a connection failure *)
RetryableAny(error) == error # "KeyboardInterrupt"

(* line 78: except (TimedOut, NetworkError) *)
Retryable(error) == error \in {"TimedOut", "NetworkError"}

(* line 82 *)
Backoff(retry_count) == retry_count * BACKOFF_SECONDS

(* lines 60-62: the loop condition holds, the try is entered and setup_bot *)
(* builds a new PastorTaraBot, whose user_sessions is empty                *)
SetupBot ==
    /\ boot.state = "loop"
    /\ boot.retry_count < MAX_RETRIES
    /\ boot' = [boot EXCEPT !.state = "polling", !.attempts = @ + 1]
    /\ user_sessions' = [u \in {} |-> 0]
    /\ pending' = {}
    /\ last' = [Idle EXCEPT !.op = "setup_bot"]
    /\ UNCHANGED <<cache, now, completed, shown, ingestVars>>

(* line 76: run_polling returned *)
RunPollingReturns ==
    /\ boot.state = "polling"
    /\ boot' = [boot EXCEPT !.state = "returned"]
    /\ last' = [Idle EXCEPT !.op = "run_polling_returns"]
    /\ UNCHANGED <<cache, now, user_sessions, pending, completed, shown,
                   ingestVars>>

(* lines 78-101: setup_bot or run_polling raised *)
AttemptRaises(error) ==
    LET retry_count == boot.retry_count + 1
        raised == [boot EXCEPT !.errors = Append(@, error)]
    IN  /\ boot.state = "polling"
        /\ boot' = IF Retryable(error)
                   THEN IF retry_count < MAX_RETRIES
                        THEN [raised EXCEPT !.retry_count = retry_count,
                                            !.waits = Append(@, Backoff(retry_count)),
                                            !.state = "loop"]
                        ELSE [raised EXCEPT !.retry_count = retry_count,
                                            !.state = "exited",
                                            !.exit_code = 1]
                   ELSE IF error = "KeyboardInterrupt"
                   THEN [raised EXCEPT !.state = "returned"]
                   ELSE [raised EXCEPT !.state = "exited", !.exit_code = 1]
        /\ last' = [Idle EXCEPT !.op = "attempt_raises"]
        /\ UNCHANGED <<cache, now, user_sessions, pending, completed, shown,
                       ingestVars>>

-----------------------------------------------------------------------------
(* Specification of the ranking stage on its own *)

RankUsers == {1, 2}
RankQueries == {"faith"}
RankCandidates == { <<>>, Short3, Dup3, Twelve }
RankResponses ==
    { Raise, NotJson, Malformed, Array(<<>>), Array(<<3, -1, 1, 1, 0>>) }

NextRank ==
    \/ /\ \E u \in RankUsers, q \in RankQueries,
             s \in RankCandidates, r \in RankResponses : RankCall(u, q, s, r)
       /\ UNCHANGED restVars
    \/ /\ Tick(CACHE_DURATION_HOURS)
       /\ UNCHANGED restVars

SpecRank == Init /\ [][NextRank]_vars

----------------------------------------------------------------------------
(* Specification of the ranking stage with more candidates than the prompt *)
(* shows: the search returns up to TOP_K_SEARCH = 20 hits                  *)

PromptCandidates == { Short3, Sixteen }
PromptResponses ==
    { Raise, NotJson, Array(<<14, 2>>), Array(<<15, 0>>), Array(<<16, 1>>) }

NextPrompt ==
    \/ /\ \E u \in RankUsers, s \in PromptCandidates, r \in PromptResponses :
               RankCall(u, "faith", s, r)
       /\ UNCHANGED restVars
    \/ /\ Tick(CACHE_DURATION_HOURS)
       /\ UNCHANGED restVars

SpecPrompt == Init /\ [][NextPrompt]_vars

----------------------------------------------------------------------------
(* Specification of the ranking stage under queries that differ in letter  *)
(* case and surrounding blanks only                                        *)

KeyQueries == {"faith", "Faith", " faith "}
KeyResponses == { Raise, NotJson, Array(<<1>>) }

NextKeys ==
    /\ \E u \in RankUsers, q \in KeyQueries, r \in KeyResponses :
          RankCall(u, q, Short3, r)
    /\ UNCHANGED restVars

SpecKeys == Init /\ [][NextKeys]_vars

----------------------------------------------------------------------------
(* Specification of the cache on its own: gets and sets of two keys while  *)
(* the clock moves by the hour                                             *)

CacheKeys == {CacheKey(1, "faith"), CacheKey(2, "faith")}
CacheValues == { <<>>, <<Hit(1, "a", 90)>> }

NextCache ==
    \/ /\ \E key \in CacheKeys : CacheGetCall(key)
       /\ UNCHANGED restVars
    \/ /\ \E key \in CacheKeys, value \in CacheValues :
               CacheSetCall(key, value)
       /\ UNCHANGED restVars
    \/ /\ Tick(1)
       /\ UNCHANGED restVars

SpecCache == Init /\ [][NextCache]_vars

----------------------------------------------------------------------------
(* Specification of the content store on its own *)

StoreLinks == {"x", "y", "z"}
StoreData == {"d1", "d2"}

NextStore ==
    \/ \E message_link \in StoreLinks, data \in StoreData :
          AddSermonCall(Sermon(message_link, data))
    \/ DeleteAllCall

SpecStore == Init /\ [][NextStore]_vars

----------------------------------------------------------------------------
(* Specification of ingestion: runs of the channel scraper, message by     *)
(* message, and loads of the materials folder                              *)

IngestLinks == {"x", "y"}
Folders ==
    { <<File("x", "d1", 2)>>, <<File("y", "d2", 1)>>,
      <<File("x", "d2", 1), File("y", "d1", 1)>> }

NextIngest ==
    \/ ScrapeStart
    \/ ChannelBegin
    \/ \E message_link \in IngestLinks : ScrapeMessage(Sermon(message_link, "d1"))
    \/ ChannelReturns
    \/ ChannelRaises
    \/ \E indexing \in {"ok", "raise"} : ScrapeFinish(indexing)
    \/ \E files \in Folders, indexing \in {"ok", "raise"} :
          LoadAllMaterials(files, indexing)

SpecIngest == Init /\ [][NextIngest]_vars

----------------------------------------------------------------------------
(* Specification of the bot: setup_bot builds the Application without      *)
(* concurrent_updates, so one update is handled to its end before the next *)
(* is taken up                                                             *)

Users == {1, 2}
Topics == {"faith"}
Counts == {5, 20}
SearchResults == { <<>>, Short3, Nine }
Responses == { Raise, NotJson, Array(<<>>) }

Next ==
    \/ /\ pending = {}
       /\ \E u \in Users, topic \in Topics, num \in Counts,
             s \in SearchResults, r \in Responses,
             transport \in {"ok", "typing_fails", "reply_fails"} :
               ProcessRecommendation(u, topic, num, Found(s), r, "text",
                                     transport)
       /\ UNCHANGED restVars
    \/ /\ \E p \in pending : PresentRecommendation(p)
       /\ UNCHANGED restVars
    \/ /\ pending = {}
       /\ \E u \in Users, transport \in {"ok", "reply_fails"} :
               HandleMore(u, transport)
       /\ UNCHANGED restVars

Spec == Init /\ [][Next]_vars

----------------------------------------------------------------------------
(* Specification of the bot as its user sees it: the updates of one user,  *)
(* routed by setup_bot and handled one after the other                     *)

Updates ==
    { Command("start", ""), Command("help", ""), Command("more", ""),
      Command("recommend", ""), Command("recommend", "3"),
      Command("recommend", "faith"), Command("recommend", "faith 0"),
      Command("recommend", "faith 25"), Command("recommend", "sup2"),
      Message("more"), Message("More"), Message("show more"),
      Message("faith"), Message("3 on faith"), Message("sup2") }

NextHandlers ==
    \/ /\ pending = {}
       /\ \E update \in Updates, i \in {IndexFails, Found(Nine)},
             r \in {Raise, NotJson}, transport \in {"ok", "reply_fails"} :
               Dispatch(1, update, i, r, "text", transport)
       /\ UNCHANGED restVars
    \/ /\ \E p \in pending : PresentRecommendation(p)
       /\ UNCHANGED restVars

SpecHandlers == Init /\ [][NextHandlers]_vars

----------------------------------------------------------------------------
(* Specification of the failures a recommendation request can meet: the    *)
(* index query, the ranking call and the response generation each raise or *)
(* return, and the transport refuses the typing indicator or a reply       *)

IndexOutcomes == { IndexFails, Found(<<>>), Found(Short3), Found(Dup3) }
Generated == {"text", "raise"}

NextFailures ==
    \/ /\ pending = {}
       /\ \E u \in Users, topic \in Topics, num \in {DEFAULT_RECOMMENDATIONS},
             i \in IndexOutcomes, r \in Responses, g \in Generated,
             transport \in {"ok", "typing_fails", "reply_fails"} :
               ProcessRecommendation(u, topic, num, i, r, g, transport)
       /\ UNCHANGED restVars
    \/ /\ \E p \in pending : PresentRecommendation(p)
       /\ UNCHANGED restVars

SpecFailures == Init /\ [][NextFailures]_vars

----------------------------------------------------------------------------
(* Specification of one user's recommendation requests when the host runs  *)
(* handlers concurrently: a new request may start while others wait at the *)
(* await of line 188, and the waiting ones resume in any order.  completed *)
(* collects the requests that ran to their end.                            *)

NextConcurrent ==
    \/ /\ \E num \in Counts, hits \in {Short3, Nine} :
               ProcessRecommendation(1, "faith", num, Found(hits), Raise,
                                     "text", "ok")
       /\ UNCHANGED restVars
    \/ /\ \E p \in pending :
               PresentRecommendation(p) /\ completed' = completed \cup {p}
       /\ UNCHANGED <<shown, ingestVars, boot>>

SpecConcurrent == Init /\ [][NextConcurrent]_vars

-----------------------------------------------------------------------------
(* Specification of the channel scraper run again and again, each run to   *)
(* its end: a started run takes up its channels and finishes, a channel    *)
(* in progress comes to its end, and neither the channels nor the index    *)
(* fail for ever: a channel that is scraped again and again is read to its *)
(* end again and again, each message that keeps being offered is handled,  *)
(* and add_documents succeeds again and again                              *)

ScrapeLinks == {"a", "b"}

NextScrape ==
    \/ ScrapeStart
    \/ ChannelBegin
    \/ \E message_link \in ScrapeLinks : ScrapeMessage(Sermon(message_link, "d1"))
    \/ ChannelReturns
    \/ ChannelRaises
    \/ \E indexing \in {"ok", "raise"} : ScrapeFinish(indexing)

SpecScrape ==
    /\ Init /\ [][NextScrape]_vars
    /\ WF_vars(ScrapeStart)
    /\ WF_vars(ChannelBegin)
    /\ \A message_link \in ScrapeLinks :
          SF_vars(ScrapeMessage(Sermon(message_link, "d1")))
    /\ SF_vars(ChannelReturns)
    /\ SF_vars(ScrapeFinish("ok"))

-----------------------------------------------------------------------------
(* Specification of the process from its start: main's attempts, and the   *)
(* updates the bot handles while run_polling runs                          *)

Errors == {"TimedOut", "NetworkError", "KeyboardInterrupt", "ValueError"}
MainUpdates == { Message("faith"), Message("more") }

NextMain ==
    \/ SetupBot
    \/ RunPollingReturns
    \/ \E error \in Errors : AttemptRaises(error)
    \/ /\ boot.state = "polling" /\ pending = {}
       /\ \E update \in MainUpdates, i \in {IndexFails, Found(Short3)},
             r \in {Raise, NotJson}, generated \in {"text", "raise"} :
               Dispatch(1, update, i, r, generated, "ok")
       /\ UNCHANGED restVars
    \/ /\ boot.state = "polling"
       /\ \E p \in pending : PresentRecommendation(p)
       /\ UNCHANGED restVars

SpecMain == Init /\ [][NextMain]_vars

-----------------------------------------------------------------------------
(* Specification of paging: the bot of Spec, with the sermons each user    *)
(* was sent since the user's session began written down in shown.  Dup3 is *)
(* a search whose ranked list (the except branch's) repeats a link         *)

PagingUsers == {1, 2}
PagingCounts == {3, 20}
PagingResults == { <<>>, Dup3, Nine }
PagingResponses == { Raise, Array(<<>>) }

(* shown follows what the step sent: a recommendation that stored a        *)
(* session begins the user's record anew, the sermons that lines 191-195   *)
(* and 284 sent are appended to it                                         *)
Sent ==
    LET u == last'.user_id
        before == IF u \in DOMAIN shown THEN shown[u] ELSE <<>>
        record(items) == [v \in DOMAIN shown \cup {u} |->
                             IF v = u THEN items ELSE shown[v]]
    IN  shown' = IF last'.op = "recommend" /\ last'.result # <<>>
                 THEN record(<<>>)
                 ELSE IF last'.op \in {"present", "more"} /\ last'.sent # <<>>
                 THEN record(before \o last'.sent)
                 ELSE shown

NextPaging ==
    \/ /\ pending = {}
       /\ \E u \in PagingUsers, num \in PagingCounts, s \in PagingResults,
             r \in PagingResponses, transport \in {"ok", "reply_fails"} :
               ProcessRecommendation(u, "faith", num, Found(s), r, "text",
                                     transport)
       /\ Sent
       /\ UNCHANGED <<completed, ingestVars, boot>>
    \/ /\ \E p \in pending : PresentRecommendation(p)
       /\ Sent
       /\ UNCHANGED <<completed, ingestVars, boot>>
    \/ /\ pending = {}
       /\ \E u \in PagingUsers, transport \in {"ok", "reply_fails"} :
               HandleMore(u, transport)
       /\ Sent
       /\ UNCHANGED <<completed, ingestVars, boot>>

SpecPaging == Init /\ [][NextPaging]_vars

----------------------------------------------------------------------------
(* Vocabulary of the properties *)

Range(seq) == {seq[i] : i \in 1..Len(seq)}

RankedCall(l) == l.op = "rank" /\ l.sermons # <<>>

InvokedModel(l) == "llm.invoke" \in Range(l.events)

KeyOf(l) == CacheKey(l.user_id, l.query)

(* the candidates whose score is at least 0.7, in retrieval order *)
ScoreAtLeastMinimum(sermons) ==
    SelectSeq(sermons, LAMBDA s : s.similarity_score >= 70)

(* the first occurrence of every link, in the order of seq *)
RECURSIVE FirstOfEachLink(_)
FirstOfEachLink(seq) ==
    IF seq = <<>>
    THEN <<>>
    ELSE LET front == FirstOfEachLink(SubSeq(seq, 1, Len(seq) - 1))
             item == seq[Len(seq)]
         IN  IF item.message_link \in Links(front)
             THEN front
             ELSE Append(front, item)

(* the cache holds an entry for key that has not expired at time t *)
Unexpired(c, t, key) == key \in DOMAIN c /\ t <= c[key].expires_at

(* an entry a later rank call would return instead of asking the model *)
Servable(c, t, key) == Unexpired(c, t, key) /\ c[key].value # <<>>

(* the slice a "more" request reads is empty *)
Exhausted(session) == session.index >= Len(session.sermons)

----------------------------------------------------------------------------
(* C1: the list rank_sermons returns for a non-empty candidate list never  *)
(* holds two items with the same message_link, whatever the model call did *)
C1_NoRepeatedLink ==
    RankedCall(last) => NoDuplicateLinks(last.result)

(* C2, as stated: every returned item has a message_link that occurs in    *)
(* the candidates of the same call, also when served from the cache        *)
C2_LinksAmongCandidates ==
    RankedCall(last) => Links(last.result) \subseteq Links(last.sermons)

(* C2, amended: the links of the returned items occur in the candidates of *)
(* the same call, unless an unexpired non-empty cache entry exists for     *)
(* (user_id, query); the result is then that entry, and its links need not *)
(* occur in the candidates                                                 *)
C2_LinksAmongCandidatesOrCached ==
    [][ RankedCall(last') =>
          IF Servable(cache, now, KeyOf(last'))
          THEN last'.result = cache[KeyOf(last')].value
          ELSE Links(last'.result) \subseteq Links(last'.sermons) ]_vars

C2_StaleLinksServed ==
    /\ RankedCall(last)
    /\ last.events = <<"cache.get">>
    /\ ~ (Links(last.result) \subseteq Links(last.sermons))

C4_CachedValueReturned ==
    [][ (RankedCall(last') /\ Unexpired(cache, now, KeyOf(last')))
        => /\ last'.result = cache[KeyOf(last')].value
           /\ ~ InvokedModel(last') ]_vars

(* C9, as stated: a rank call that takes the fallback (the model call      *)
(* raised, or the response is not a JSON array) stores nothing, so no      *)
(* entry is there to serve the next call for the same (user_id, query)     *)
C9_FallbackNotCached ==
    (RankedCall(last) /\ InvokedModel(last) /\ last.response.kind # "array")
    => /\ "cache.set" \notin Range(last.events)
       /\ ~ Servable(cache, now, KeyOf(last))

(* C9, amended: a rank call that asked the model stores its result unless  *)
(* an exception was raised: it stores the list built from a parsed index   *)
(* array and also the first-10 list built when the response is unbracketed *)
(* text; when the model call raised or the bracketed response did not      *)
(* parse it stores nothing and leaves no entry to serve the next call      *)
C9_CachedUnlessRaised ==
    (RankedCall(last) /\ InvokedModel(last))
    => /\ last.response.kind \in {"raise", "malformed"}
            => /\ "cache.set" \notin Range(last.events)
               /\ ~ Servable(cache, now, KeyOf(last))
       /\ last.response.kind \in {"array", "text"}
            => /\ "cache.set" \in Range(last.events)
               /\ KeyOf(last) \in DOMAIN cache
               /\ cache[KeyOf(last)] =
                      [value |-> last.result,
                       expires_at |-> now + CACHE_DURATION_HOURS]

C9_TextResultStored ==
    /\ RankedCall(last) /\ InvokedModel(last)
    /\ last.response.kind = "text"
    /\ Servable(cache, now, KeyOf(last))
    /\ cache[KeyOf(last)].value = last.result

(* C10: a rank call with no candidates returns the empty list, does not    *)
(* read or write the cache and does not invoke the model, also when an     *)
(* unexpired entry exists for (user_id, query)                             *)
C10_EmptyCandidatesBypass ==
    [][ (last'.op = "rank" /\ last'.sermons = <<>>)
        => /\ last'.result = <<>>
           /\ last'.events = <<>>
           /\ cache' = cache ]_vars

C10_EmptyCallOverEntry ==
    /\ last.op = "rank" /\ last.sermons = <<>>
    /\ last.result = <<>>
    /\ Servable(cache, now, KeyOf(last))

(* the session a step's "more" request reads *)
HadSession(l) == l.user_id \in DOMAIN user_sessions

(* C5, as stated: a "more" request that returns a non-empty slice advances *)
(* the cursor by the number of items returned                              *)
C5_AdvanceByReturned ==
    [][ (last'.op = "more" /\ last'.sent # <<>>)
        => user_sessions'[last'.user_id].index
             = user_sessions[last'.user_id].index + Len(last'.sent) ]_vars

(* C5, amended: a "more" request that returns a non-empty slice returns    *)
(* the up to 5 items that follow the cursor and advances the cursor by the *)
(* page size 5, also when fewer than 5 items were returned: with a 9-item  *)
(* list and a first page of 5 the next page is items 6..9 and the cursor   *)
(* is left at 10                                                           *)
C5_AdvanceByPageSize ==
    [][ (last'.op = "more" /\ last'.sent # <<>>)
        => LET before == user_sessions[last'.user_id]
               after == user_sessions'[last'.user_id]
           IN  /\ after.index = before.index + 5
               /\ after.sermons = before.sermons
               /\ Len(last'.sent) <= 5
               /\ last'.sent = SubSeq(before.sermons, before.index + 1,
                                      before.index + Len(last'.sent)) ]_vars

C5_LastPageOfNine ==
    /\ last.op = "more"
    /\ last.sent = SubSeq(Nine, 6, 9)
    /\ user_sessions[last.user_id] = [sermons |-> Nine, index |-> 10]

(* C6: a "more" request whose slice at the cursor is empty answers "no     *)
(* more results", sends no sermon and leaves every session as it was; a    *)
(* session in that state stays in it until a recommendation of that user   *)
(* produces a non-empty ranked list                                        *)
C6_NoMoreIsStable ==
    [][ /\ (last'.op = "more" /\ HadSession(last')
                /\ Exhausted(user_sessions[last'.user_id]))
            => /\ last'.transport = "ok" => last'.replies = <<"no_more">>
               /\ last'.sent = <<>>
               /\ user_sessions' = user_sessions
        /\ \A u \in DOMAIN user_sessions :
              (/\ Exhausted(user_sessions[u])
               /\ ~ (last'.op = "recommend" /\ last'.user_id = u
                        /\ last'.result # <<>>))
              => /\ u \in DOMAIN user_sessions'
                 /\ user_sessions'[u] = user_sessions[u] ]_vars

C6_NoMoreAnswered ==
    /\ last.op = "more"
    /\ last.replies = <<"no_more">>
    /\ HadSession(last)
    /\ user_sessions[last.user_id].sermons # <<>>
    /\ Exhausted(user_sessions[last.user_id])

(* C7: a "more" request of a user without a session answers "search        *)
(* first", which is not the "no more results" answer, sends no sermon and  *)
(* creates no session                                                      *)
C7_SearchFirst ==
    [][ (last'.op = "more" /\ ~ HadSession(last'))
        => /\ last'.transport = "ok" => last'.replies = <<"search_first">>
           /\ "no_more" \notin Range(last'.replies)
           /\ last'.sent = <<>>
           /\ user_sessions' = user_sessions ]_vars

C7_SearchFirstAnswered ==
    /\ last.op = "more"
    /\ last.replies = <<"search_first">>
    /\ ~ HadSession(last)
    /\ DOMAIN user_sessions # {}

(* C8: a recommendation that produces a non-empty ranked list leaves the   *)
(* user's session holding that list with cursor 0, and once the first N    *)
(* items have been presented the cursor is N, whatever the length of the   *)
(* list                                                                    *)
C8_SessionReplacedThenCursorN ==
    /\ (last.op = "recommend" /\ last.result # <<>>)
       => /\ HadSession(last)
          /\ user_sessions[last.user_id] =
                 [sermons |-> last.result, index |-> 0]
    /\ last.op = "present"
       => /\ HadSession(last)
          /\ user_sessions[last.user_id] =
                 [sermons |-> last.result, index |-> last.num]
          /\ last.sent = SubSeq(last.result, 1,
                                IF last.num < Len(last.result)
                                THEN last.num ELSE Len(last.result))

C8_CursorBeyondList ==
    /\ last.op = "present"
    /\ last.num > Len(last.result)
    /\ user_sessions[last.user_id].index = last.num

----------------------------------------------------------------------------
(* C11: a get of a key whose entry has expired returns None and removes    *)
(* the entry; a key that has no entry gets one only by a set of that key,  *)
(* and a get of it returns None                                            *)
C11_ExpiredGetRemoves ==
    [][\A key \in CacheKeys :
         /\ (last'.op = "get" /\ last'.key = key /\ key \in DOMAIN cache
                 /\ now > cache[key].expires_at)
               => (~last'.hit /\ key \notin DOMAIN cache')
         /\ (key \notin DOMAIN cache /\ key \in DOMAIN cache')
               => (last'.op = "set" /\ last'.key = key)
         /\ (last'.op = "get" /\ last'.key = key /\ key \notin DOMAIN cache)
               => ~last'.hit]_vars

(* a get has just deleted an expired entry while the other key's entry     *)
(* stays                                                                   *)
C11_ExpiredEntryRemoved ==
    /\ last.op = "get" /\ ~last.hit
    /\ last.events = <<"os.remove">>
    /\ last.key \notin DOMAIN cache
    /\ DOMAIN cache # {}

(* C12: a set stores the value with expiry now + CACHE_DURATION_HOURS and  *)
(* touches no other entry; a get returns the stored value exactly while    *)
(* now <= expiry and changes no entry it leaves in place; the passing of   *)
(* time changes nothing in the cache                                       *)
C12_ValueServedForTheDuration ==
    [][/\ last'.op = "set" =>
            /\ DOMAIN cache' = DOMAIN cache \cup {last'.key}
            /\ cache'[last'.key] =
                  [value |-> last'.result,
                   expires_at |-> now + CACHE_DURATION_HOURS]
            /\ \A k \in DOMAIN cache \ {last'.key} : cache'[k] = cache[k]
       /\ last'.op = "get" =>
            /\ last'.hit <=> Unexpired(cache, now, last'.key)
            /\ last'.hit => last'.result = cache[last'.key].value
            /\ \A k \in DOMAIN cache' :
                  k \in DOMAIN cache /\ cache'[k] = cache[k]
       /\ last'.op = "tick" => cache' = cache]_vars

(* a value set again after the first duration is served at the last hour   *)
(* of its own duration                                                     *)
C12_ServedAtLastHour ==
    /\ last.op = "get" /\ last.hit
    /\ now = cache[last.key].expires_at
    /\ now > CACHE_DURATION_HOURS
    /\ last.result # <<>>
----------------------------------------------------------------------------
(* the candidates at the in-bounds indexes of an index list, in the order  *)
(* of that list                                                            *)
AtListedIndexes(sermons, indexes) ==
    LET in_bounds == SelectSeq(indexes, LAMBDA i : i >= 0 /\ i < Len(sermons))
    IN  [k \in 1..Len(in_bounds) |-> sermons[in_bounds[k] + 1]]

(* C20: when the model answers with a JSON array of integers, the call     *)
(* returns the candidates at the in-bounds indexes in the order the model  *)
(* listed them, each link (and so each index) at its first occurrence only *)
C20_ModelOrderFirstOccurrences ==
    (RankedCall(last) /\ InvokedModel(last) /\ last.response.kind = "array")
        => last.result
             = FirstOfEachLink(AtListedIndexes(last.sermons,
                                               last.response.indexes))

(* the model listed two out-of-bounds indexes and a repeated index, and   *)
(* put the second candidate before the first                               *)
C20_ReversedAndDeduplicated ==
    /\ RankedCall(last) /\ InvokedModel(last)
    /\ last.sermons = Short3
    /\ last.response = Array(<<3, -1, 1, 1, 0>>)
    /\ last.result = << Short3[2], Short3[1] >>
----------------------------------------------------------------------------
(* the replies a handler words for the user, as against error_handler's    *)
(* "Oops" for an exception that left the handler                           *)
HandlerReplies ==
    {"no_match", "no_relevant", "ai_response", "blessing", "error"}

(* C15: whichever of the index query, the ranking call and the response    *)
(* generation raise, and also when the typing indicator is refused, a      *)
(* recommendation request whose replies the transport accepts is answered  *)
(* with at least one reply worded by the handler, and no exception leaves  *)
(* the handler; a stage that raised inside is answered without the error   *)
(* reply                                                                   *)
C15_AlwaysAnswered ==
    (last.op = "recommend" /\ last.transport # "reply_fails")
        => /\ Len(last.replies) >= 1
           /\ Range(last.replies) \subseteq HandlerReplies
           /\ last.transport = "ok" => "error" \notin Range(last.replies)

(* the ranking call and the response generation both raised and the user   *)
(* got the canned blessing                                                 *)
C15_BlessingAfterTwoFailures ==
    /\ last.op = "recommend" /\ last.transport = "ok"
    /\ last.failures = {"rank", "generate"}
    /\ last.replies = <<"blessing">>
----------------------------------------------------------------------------
(* C13: a /more command does what the text "more" does: without a session  *)
(* it answers "search first", at an exhausted session "no more", and       *)
(* otherwise it sends the up to 5 sermons at the cursor and moves the      *)
(* cursor on by the page size                                              *)
C13_MoreCommandPages ==
    [][ (last'.command = "more" /\ last'.transport = "ok")
        => IF ~HadSession(last')
           THEN /\ last'.replies = <<"search_first">>
                /\ user_sessions' = user_sessions
           ELSE LET before == user_sessions[last'.user_id] IN
                IF Exhausted(before)
                THEN /\ last'.replies = <<"no_more">>
                     /\ user_sessions' = user_sessions
                ELSE /\ last'.sent # <<>>
                     /\ last'.sent
                          = SubSeq(before.sermons, before.index + 1,
                                   before.index + Len(last'.sent))
                     /\ user_sessions'[last'.user_id].index
                          = before.index + 5 ]_vars

(* C14: a /recommend whose topic is empty, for want of arguments or        *)
(* because its only argument is a count, is answered with the "provide a   *)
(* topic" message and searches nothing, ranks nothing and leaves cache and *)
(* sessions alone                                                          *)
C14_EmptyTopicAsksForTopic ==
    [][ (last'.op = "recommend" /\ last'.query = ""
            /\ last'.transport = "ok")
        => /\ last'.replies = <<"provide_topic">>
           /\ last'.events = <<>>
           /\ UNCHANGED <<cache, user_sessions, pending>> ]_vars

(* C19: the count of the first page lies between 1 and 20 *)
C19_FirstPageCountInRange ==
    last.op = "present" => (1 <= last.num /\ last.num <= 20)
----------------------------------------------------------------------------
----------------------------------------------------------------------------
(* the links of the rows of a table *)
LinksOfRows(table) == {row.message_link : row \in table}

(* C16: the table never holds two rows of one message_link; an add_sermon  *)
(* leaves exactly one row of its link, with the data of this add, leaves   *)
(* the rows of other links as they are, and raises the count by one if the *)
(* link is new and not at all otherwise; delete_all_sermons empties the    *)
(* table.  So the count is the number of distinct links added since the    *)
(* last delete_all, and each row is the most recent add of its link.       *)
C16_OneRowPerLinkLatestWins ==
    [][ /\ \A r1, r2 \in db'.sermons :
              r1.message_link = r2.message_link => r1 = r2
        /\ last'.op = "add_sermon" =>
              LET added == last'.items[1] IN
              /\ \E row \in db'.sermons :
                    /\ row.message_link = added.message_link
                    /\ row.data = added.data
              /\ \A row \in db.sermons :
                    row.message_link # added.message_link
                        => row \in db'.sermons
              /\ LinksOfRows(db'.sermons)
                    = LinksOfRows(db.sermons) \cup {added.message_link}
              /\ GetSermonCount(db') = Cardinality(LinksOfRows(db'.sermons))
        /\ last'.op = "delete_all" => GetSermonCount(db') = 0 ]_vars

(* a link was added twice with different data among the adds of two links, *)
(* and the table holds two rows, the later data for the repeated link      *)
C16_ReplacedRow ==
    /\ last.op = "add_sermon"
    /\ db.sqlite_sequence = 3
    /\ GetSermonCount(db) = 2
    /\ \E row \in db.sermons :
          /\ row.message_link = last.items[1].message_link
          /\ row.id = 3
          /\ row.data = "d2"
    /\ \E row \in db.sermons : row.id = 2
----------------------------------------------------------------------------
(* the documents of a link in the vector store, counted with repetition *)
DocumentsOfLink(store, message_link) ==
    BagCardinality([doc \in {d \in DOMAIN store :
                               d.message_link = message_link}
                    |-> store[doc]])

(* C17: an item ingested by the scraper or by the materials loader whose   *)
(* link already has a row leaves that row as it is and adds no document of *)
(* that link to the vector store, nor to what the scraper will embed       *)
C17_DuplicateIngestIsNoOp ==
    [][ last'.op \in {"scrape_message", "load_materials"}
        => \A i \in 1..Len(last'.items) :
             LET message_link == last'.items[i].message_link IN
             GetSermonByLink(db, message_link) # {}
               => /\ GetSermonByLink(db', message_link)
                     = GetSermonByLink(db, message_link)
                  /\ DocumentsOfLink(vectorstore', message_link)
                     = DocumentsOfLink(vectorstore, message_link)
                  /\ scrape'.sermons = scrape.sermons ]_vars
----------------------------------------------------------------------------
(* the model's array names an index that no candidate has *)
OutOfBoundsListed(l) ==
    /\ l.response.kind = "array"
    /\ \E n \in 1..Len(l.response.indexes) :
          l.response.indexes[n] < 0 \/ l.response.indexes[n] >= Len(l.sermons)

(* C21, as stated: when the model's array holds an index outside the       *)
(* candidates, the call returns the fallback, the candidates whose score   *)
(* is at least 0.7                                                         *)
C21_OutOfBoundsFallsBack ==
    (RankedCall(last) /\ InvokedModel(last) /\ OutOfBoundsListed(last))
        => last.result = ScoreAtLeastMinimum(last.sermons)

(* C21, amended: when the model's array holds an index outside the         *)
(* candidates, that index is passed over and nothing else changes: the     *)
(* call returns the candidates at the remaining indexes in the model's     *)
(* order, first occurrence of each link only, and stores that list in the  *)
(* cache like any other model-ordered result                               *)
C21_OutOfBoundsSkipped ==
    (RankedCall(last) /\ InvokedModel(last) /\ OutOfBoundsListed(last))
        => /\ last.result
                = FirstOfEachLink(AtListedIndexes(last.sermons,
                                                  last.response.indexes))
           /\ "cache.set" \in Range(last.events)
           /\ KeyOf(last) \in DOMAIN cache
           /\ cache[KeyOf(last)].value = last.result

(* the array named indexes 3 and -1 of three candidates: the result is the *)
(* one model-ordered item, where the fallback would hold two               *)
C21_SkippedNotFallback ==
    /\ RankedCall(last) /\ InvokedModel(last) /\ OutOfBoundsListed(last)
    /\ last.sermons = Dup3
    /\ last.result = << Dup3[2] >>
    /\ ScoreAtLeastMinimum(Dup3) = << Dup3[1], Dup3[2] >>
----------------------------------------------------------------------------
(* C24: a result built from the model's index array holds only candidates  *)
(* the prompt showed to the model, so with more than 15 candidates none    *)
(* from position 15 on                                                     *)
C24_OnlyPromptedCandidates ==
    (RankedCall(last) /\ InvokedModel(last) /\ last.response.kind = "array")
        => /\ Range(last.result) \subseteq Range(last.prompt)
           /\ \A i \in 1..Len(last.sermons) :
                 i > 15 => last.sermons[i] \notin Range(last.result)
----------------------------------------------------------------------------
(* the query in lower case and without surrounding blanks *)
Normalized(query) ==
    IF query \in {"Faith", " faith ", "FAITH"} THEN "faith" ELSE query

(* the entry of a user and a query taken letter by letter *)
ExactKey(user_id, query) == <<user_id, query>>

(* C23, as stated: a rank call of a user for whom a servable entry exists   *)
(* under a query equal to the call's after normalisation uses that entry;  *)
(* entries of another user or another normalised query are never used      *)
C23_NormalizedQueriesShareEntry ==
    [][ RankedCall(last') =>
          \A u \in RankUsers, q \in KeyQueries :
             Servable(cache, now, ExactKey(u, q)) =>
                IF u = last'.user_id
                      /\ Normalized(q) = Normalized(last'.query)
                THEN /\ last'.events = <<"cache.get">>
                     /\ last'.result = cache[ExactKey(u, q)].value
                ELSE cache'[ExactKey(u, q)] = cache[ExactKey(u, q)] ]_vars

(* C23, amended: the entry of a rank call is that of its user and of its   *)
(* query letter by letter: the call is served from the cache exactly when  *)
(* that entry is servable, stores its model-ordered result there, and      *)
(* reads and writes no other entry, whether of another user or of a query  *)
(* that differs in case or blanks only                                     *)
C23_ExactQueryOwnEntry ==
    [][ RankedCall(last') =>
          LET own == ExactKey(last'.user_id, last'.query) IN
          /\ (last'.events = <<"cache.get">>) <=> Servable(cache, now, own)
          /\ last'.events = <<"cache.get">>
                => last'.result = cache[own].value
          /\ "cache.set" \in Range(last'.events)
                => (own \in DOMAIN cache' /\ cache'[own].value = last'.result)
          /\ DOMAIN cache' \ {own} = DOMAIN cache \ {own}
          /\ \A k \in DOMAIN cache \ {own} : cache'[k] = cache[k] ]_vars

(* user 1 has one entry for "faith" and another for "Faith", with different *)
(* lists, and the call for "Faith" asked the model                         *)
C23_TwoEntriesForOneTopic ==
    /\ RankedCall(last) /\ InvokedModel(last)
    /\ last.user_id = 1 /\ last.query = "Faith"
    /\ ExactKey(1, "faith") \in DOMAIN cache
    /\ ExactKey(1, "Faith") \in DOMAIN cache
    /\ cache[ExactKey(1, "faith")].value # cache[ExactKey(1, "Faith")].value
-----------------------------------------------------------------------------
(* C22: from the first page on, what a user has been sent since the        *)
(* session began is the ranked list up to some position, item by item in   *)
(* rank order, so no item is skipped and none is sent twice; a "more" that *)
(* sends a page lengthens it, so after finitely many of them the list is   *)
(* used up, and the "more" that answers no_more finds the whole list sent; *)
(* no "more" calls the search, the ranking or the model, nor writes the    *)
(* cache                                                                   *)

IsPrefix(s, t) == Len(s) <= Len(t) /\ s = SubSeq(t, 1, Len(s))

SentSoFar(sh, u) == IF u \in DOMAIN sh THEN sh[u] ELSE <<>>

-----------------------------------------------------------------------------
(* C25: a recommendation that ends with no search hits or with an empty    *)
(* ranked list leaves every session as it was, the requesting user's list  *)
(* and cursor included, and a "more" of that user that comes next sends    *)
(* the page that follows the cursor of the earlier search                  *)

WithoutResults(l) == l.op = "recommend" /\ l.result = <<>>

C25_NoResultsKeepSession ==
    [][ /\ WithoutResults(last') =>
              user_sessions' = user_sessions /\ pending' = pending
        /\ ( /\ WithoutResults(last)
             /\ last'.op = "more"
             /\ last'.user_id = last.user_id
             /\ last.user_id \in DOMAIN user_sessions
             /\ last'.transport = "ok" ) =>
              /\ last'.sent = NextBatch(user_sessions[last.user_id].sermons,
                                        user_sessions[last.user_id].index)
              /\ IsPrefix(shown'[last.user_id],
                          user_sessions[last.user_id].sermons) ]_vars

C25_NothingFoundMidPaging ==
    /\ WithoutResults(last)
    /\ last.replies \in { <<"no_match">>, <<"no_relevant">> }
    /\ last.user_id \in DOMAIN user_sessions
    /\ user_sessions[last.user_id].index > 0
    /\ ~Exhausted(user_sessions[last.user_id])

-----------------------------------------------------------------------------
(* C26: a step taken for one user neither creates, replaces nor advances   *)
(* the session of another user; a user's list is replaced only by a        *)
(* recommendation of that user, with the list that recommendation ranked,  *)
(* and what a "more" sends is the slice of the requesting user's own list  *)

SessionOf(sessions, u) ==
    IF u \in DOMAIN sessions THEN <<sessions[u]>> ELSE <<>>

C26_SessionsPerUser ==
    [][ /\ \A u \in PagingUsers :
              /\ u # last'.user_id =>
                    SessionOf(user_sessions', u) = SessionOf(user_sessions, u)
              /\ ( /\ u \in DOMAIN user_sessions'
                   /\ \/ u \notin DOMAIN user_sessions
                      \/ user_sessions'[u].sermons # user_sessions[u].sermons )
                  => /\ last'.op = "recommend"
                     /\ last'.user_id = u
                     /\ last'.result = user_sessions'[u].sermons
        /\ (last'.op = "more" /\ last'.sent # <<>>) =>
              last'.sent = NextBatch(user_sessions[last'.user_id].sermons,
                                     user_sessions[last'.user_id].index) ]_vars

C26_TwoUsersPagingSideBySide ==
    /\ DOMAIN user_sessions = PagingUsers
    /\ user_sessions[1].sermons # user_sessions[2].sermons
    /\ user_sessions[1].index > 0
    /\ last.op = "more"
    /\ last.user_id = 2
    /\ last.sent # <<>>

-----------------------------------------------------------------------------
(* C27: every sermon the channel scraper has written to the content store  *)
(* is eventually in the embedding index, by this run or by a later one     *)

C27_StoredEventuallyIndexed ==
    \A message_link \in ScrapeLinks :
        [](GetSermonByLink(db, message_link) # {}
              => <>(DocumentsOfLink(vectorstore, message_link) > 0))

-----------------------------------------------------------------------------
(* C28: main makes at most 5 attempts; an attempt follows a failed one     *)
(* only when that one raised TimedOut or NetworkError; after the i-th      *)
(* failed attempt, i < 5, it has slept 5*i seconds; after the 5th it has   *)
(* exited with status 1; any other exception ends it at once (status 1, or *)
(* the break of KeyboardInterrupt); once ended it does nothing more.  A    *)
(* handler step leaves main's loop where it is, and a request calls the    *)
(* search at most once and the model at most once for the ranking and once *)
(* for the response, whatever failed inside                                *)

Count(event, events) == Cardinality({i \in 1..Len(events) : events[i] = event})

ConnectionErrors == {"TimedOut", "NetworkError"}

Ended(b) == b.state \in {"returned", "exited"}

C28_StartupLoopBounded ==
    [][ /\ boot'.attempts <= 5
        /\ boot'.retry_count <= 5
        /\ \A i \in 1..Len(boot'.errors) - 1 :
              boot'.errors[i] \in ConnectionErrors
        /\ boot'.attempts > boot.attempts /\ boot.attempts > 0 =>
              boot.errors[Len(boot.errors)] \in ConnectionErrors
        /\ ~Ended(boot') =>
              /\ boot'.retry_count = Len(boot'.errors)
              /\ boot'.retry_count < 5
        /\ boot'.waits = [i \in 1..Min(boot'.retry_count, 4) |-> 5 * i]
        /\ boot'.retry_count = 5 =>
              boot'.state = "exited" /\ boot'.exit_code = 1
        /\ ( /\ boot'.errors # boot.errors
             /\ boot'.errors[Len(boot'.errors)] \notin ConnectionErrors ) =>
              /\ Ended(boot')
              /\ boot'.waits = boot.waits
              /\ boot'.exit_code = 1
                    <=> boot'.errors[Len(boot'.errors)] # "KeyboardInterrupt"
        /\ Ended(boot) => boot' = boot /\ last' = last
        /\ last'.op \in {"recommend", "present", "more"} =>
              /\ boot' = boot
              /\ Count("rag.search", last'.events) <= 1
              /\ Count("llm.invoke", last'.events) <= 2
              /\ Count("cache.get", last'.events) <= 1
        ]_vars

C28_GaveUpAfterFifthFailure ==
    /\ boot.state = "exited"
    /\ boot.exit_code = 1
    /\ boot.attempts = 5
    /\ boot.retry_count = 5
    /\ boot.waits = <<5, 10, 15, 20>>

====
